---------------------------- MODULE Spec2Model ----------------------------
(***************************************************************************)
(* A model of the AI-Steganography codecs: the importance-guided encoder   *)
(* and decoder (ai_encoder.py, ai_decoder.py), the uniform LSB encoders    *)
(* and decoders (lsb_encoder.py, lsb_decoder.py) and their helpers         *)
(* (utils.py).                                                             *)
(*                                                                         *)
(* An image is a function from the raster index i = y*width + x            *)
(* (0 .. width*height-1) to a pixel <<r, g, b>>.  A text is a sequence of  *)
(* Unicode code points, a bitstream a sequence of 0/1.                     *)
(*                                                                         *)
(* The edge filter (skimage sobel followed by cv2.normalize) is a library  *)
(* function of the grayscale image it is given; the model keeps it as an   *)
(* oracle: its result on the source image is an input (importance_map),    *)
(* and its result on another grayscale image is the same map when the two  *)
(* grayscale images are equal and any map of Maps otherwise.               *)
(***************************************************************************)
EXTENDS Integers, Sequences, FiniteSets, TLC

VARIABLES
    path_status,     \* what is at image_path: "ok", "rgba", "cv2_unreadable",
                     \* "missing", "unsupported", "undecodable"
    width, height,   \* img.size of the source image
    pixels,          \* the source image: raster index -> <<r, g, b>>
    importance_map,  \* generate_importance_map(image_path) of the encoder
    message,         \* the text handed to the encoder
    threshold,       \* the encoder's threshold argument
    pc,              \* "start", "encoded", "failed", "decoded"
    enc_kind,        \* "none", "ai", "lsb", "multi"
    enc_channels,    \* channels argument of encode_lsb_multi_channel
    enc_result,      \* "none", "ok" or the error the encoder raised
    enc_candidates,  \* pixel_importance of encode_ai (raster indices)
    events,          \* what the encoder did, in order
    out_exists,      \* the encoder saved an output image
    out_pixels,      \* the saved output image
    dec_entry,       \* "none", "decode_ai", "decode_lsb", "decode_standard_lsb",
                     \* "detect_encoding_format"
    dec_target,      \* "none", "source", "output"
    dec_threshold,   \* the decoder's threshold argument
    dec_map,         \* importance map computed inside decode_ai
    dec_candidates,  \* pixel_importance of decode_ai (raster indices)
    dec_term_found,  \* decode_ai matched its terminator
    dec_tried,       \* the strategies decode_ai ran, in order
    dec_kind,        \* "none", "return", "raise"
    dec_text,        \* the returned text
    dec_error        \* the raised error

vars == <<path_status, width, height, pixels, importance_map, message, threshold,
          pc, enc_kind, enc_channels, enc_result, enc_candidates, events,
          out_exists, out_pixels, dec_entry, dec_target, dec_threshold, dec_map,
          dec_candidates, dec_term_found, dec_tried, dec_kind, dec_text, dec_error>>

encVars == <<enc_kind, enc_channels, enc_result, enc_candidates, events,
             out_exists, out_pixels>>

decVars == <<dec_entry, dec_target, dec_threshold, dec_map, dec_candidates,
             dec_term_found, dec_tried, dec_kind, dec_text, dec_error>>

inputVars == <<path_status, width, height, pixels, importance_map, message,
               threshold>>

---------------------------------------------------------------------------
(* Bounds of the model. *)

\* side lengths of the large image (room for the 64-bit terminator)
Width == 10
Height == 10
\* side length of the small square image
SmallSide == 4
\* longest message, in characters
MaxMsgLen == 2

(* Program constants. *)
DefaultThreshold == 100
AITerminatorLen == 64

\* 'i', U+00FE (two UTF-8 bytes, code 11111110), U+20AC (three UTF-8 bytes)
Alphabet == {105, 254, 8364}

Thresholds == {0, DefaultThreshold}

---------------------------------------------------------------------------
(* Sequences and bits. *)

Min(a, b) == IF a < b THEN a ELSE b

RECURSIVE Flatten(_)
Flatten(ss) == IF ss = <<>> THEN <<>> ELSE Head(ss) \o Flatten(Tail(ss))

Repeat(v, n) == [k \in 1..n |-> v]

\* the value of a bit sequence read MSB first: int(bits, 2)
RECURSIVE BitsValue(_)
BitsValue(bits) ==
    IF bits = <<>> THEN 0
    ELSE 2 * BitsValue(SubSeq(bits, 1, Len(bits) - 1)) + bits[Len(bits)]

\* the binary digits of n, MSB first, without padding ("0" for 0): format(n, 'b')
RECURSIVE BinDigits(_)
BinDigits(n) == IF n < 2 THEN <<n>> ELSE Append(BinDigits(n \div 2), n % 2)

\* format(n, '08b'): zero-padded to at least 8 digits, longer when n > 255
Format08b(n) ==
    LET d == BinDigits(n)
    IN  IF Len(d) >= 8 THEN d ELSE Repeat(0, 8 - Len(d)) \o d

\* a write that ORs the bit in without clearing the old LSB: r | bit
SetLSBWithoutClear(c, bit) == IF bit = 1 THEN (c - (c % 2)) + 1 ELSE c

\* (r & ~1) | bit
SetLSB(c, bit) == (c - (c % 2)) + bit

\* r & 1
LSB(c) == c % 2

---------------------------------------------------------------------------
(* Text codecs: str.encode('utf-8'), bytes.decode('utf-8'),                *)
(* bytes.decode('latin-1').                                                *)

\* the UTF-8 bytes of one code point (no surrogates in the alphabet)
Utf8Char(cp) ==
    IF cp < 128 THEN <<cp>>
    ELSE IF cp < 2048 THEN <<192 + (cp \div 64), 128 + (cp % 64)>>
    ELSE IF cp < 65536
         THEN <<224 + (cp \div 4096), 128 + ((cp \div 64) % 64), 128 + (cp % 64)>>
    ELSE <<240 + (cp \div 262144), 128 + ((cp \div 4096) % 64),
           128 + ((cp \div 64) % 64), 128 + (cp % 64)>>

\* message.encode('utf-8')
Utf8Encode(text) == Flatten([k \in 1..Len(text) |-> Utf8Char(text[k])])

IsCont(b) == b >= 128 /\ b <= 191

\* the length of the well-formed UTF-8 sequence starting at bytes[p], 0 when ill-formed
Utf8SeqLen(bytes, p) ==
    LET n  == Len(bytes)
        b0 == bytes[p]
        b1 == bytes[p + 1]
    IN  IF b0 < 128 THEN 1
        ELSE IF b0 >= 194 /\ b0 <= 223
             THEN IF p + 1 <= n /\ IsCont(b1) THEN 2 ELSE 0
        ELSE IF b0 >= 224 /\ b0 <= 239
             THEN IF /\ p + 2 <= n
                     /\ IsCont(b1)
                     /\ (b0 = 224 => b1 >= 160)
                     /\ (b0 = 237 => b1 <= 159)
                     /\ IsCont(bytes[p + 2])
                  THEN 3 ELSE 0
        ELSE IF b0 >= 240 /\ b0 <= 244
             THEN IF /\ p + 3 <= n
                     /\ IsCont(b1)
                     /\ (b0 = 240 => b1 >= 144)
                     /\ (b0 = 244 => b1 <= 143)
                     /\ IsCont(bytes[p + 2])
                     /\ IsCont(bytes[p + 3])
                  THEN 4 ELSE 0
        ELSE 0

\* the code point of the well-formed sequence of length n starting at bytes[p]
Utf8CodePoint(bytes, p, n) ==
    IF n = 1 THEN bytes[p]
    ELSE IF n = 2 THEN (bytes[p] - 192) * 64 + (bytes[p + 1] - 128)
    ELSE IF n = 3
         THEN (bytes[p] - 224) * 4096 + (bytes[p + 1] - 128) * 64 + (bytes[p + 2] - 128)
    ELSE (bytes[p] - 240) * 262144 + (bytes[p + 1] - 128) * 4096
         + (bytes[p + 2] - 128) * 64 + (bytes[p + 3] - 128)

\* strict UTF-8 decoding from position p: [ok, text]
RECURSIVE Utf8DecodeFrom(_, _)
Utf8DecodeFrom(bytes, p) ==
    IF p > Len(bytes) THEN [ok |-> TRUE, text |-> <<>>]
    ELSE LET n == Utf8SeqLen(bytes, p)
         IN  IF n = 0 THEN [ok |-> FALSE, text |-> <<>>]
             ELSE LET rest == Utf8DecodeFrom(bytes, p + n)
                  IN  [ok   |-> rest.ok,
                       text |-> IF rest.ok
                                THEN <<Utf8CodePoint(bytes, p, n)>> \o rest.text
                                ELSE <<>>]

\* byte_array.decode('utf-8'): ok = FALSE stands for UnicodeDecodeError
Utf8Decode(bytes) == Utf8DecodeFrom(bytes, 1)

\* byte_array.decode('latin-1'): every byte is the code point of that value
Latin1Decode(bytes) == bytes

\* decode_ai's "Decode with fallbacks": UTF-8, then Latin-1 (which cannot fail)
DecodeBytes(bytes) ==
    LET u == Utf8Decode(bytes)
    IN  IF u.ok THEN u.text ELSE Latin1Decode(bytes)

---------------------------------------------------------------------------
(* Framing. *)

\* the terminator encode_ai appends: the 64-character literal of 63 ones and a zero
AIEncTerminator == Repeat(1, AITerminatorLen - 1) \o <<0>>

\* the terminator decode_ai looks for: ('1' * 64 + '11111110')[:64]
AIDecTerminator == SubSeq(Repeat(1, 64) \o <<1, 1, 1, 1, 1, 1, 1, 0>>, 1, AITerminatorLen)

\* the terminator of encode_lsb, encode_lsb_multi_channel and decode_lsb: '11111110'
LsbTerminator == <<1, 1, 1, 1, 1, 1, 1, 0>>

\* the terminator of decode_standard_lsb: '00000000'
StandardTerminator == <<0, 0, 0, 0, 0, 0, 0, 0>>

\* the payload bits of encode_ai: each UTF-8 byte as format(byte, '08b')
AIPayloadBits(text) ==
    LET bytes == Utf8Encode(text)
    IN  Flatten([k \in 1..Len(bytes) |-> Format08b(bytes[k])])

\* binary_message of encode_ai
AIFrame(text) == AIPayloadBits(text) \o AIEncTerminator

\* the payload bits of the uniform encoders: format(ord(char), '08b') per character
LsbPayloadBits(text) == Flatten([k \in 1..Len(text) |-> Format08b(text[k])])

\* binary_message of encode_lsb and encode_lsb_multi_channel
LsbFrame(text) == LsbPayloadBits(text) \o LsbTerminator

\* the complete 8-bit groups of a bit sequence as byte values
BitsToBytes(bits) ==
    [k \in 1..(Len(bits) \div 8) |-> BitsValue(SubSeq(bits, 8 * k - 7, 8 * k))]

\* "Convert binary to characters" of the uniform decoders: chr(int(char, 2))
BitsToChars(bits) == BitsToBytes(bits)

---------------------------------------------------------------------------
(* Images, importance maps and candidate sequences. *)

Indices(w, h) == 0..(w * h - 1)

\* the raster scan "for y in range(height): for x in range(width)"
ScanOrder(w, h) == [k \in 1..(w * h) |-> k - 1]

XOf(i, w) == i % w
YOf(i, w) == i \div w

\* cv2's 8-bit grayscale of a pixel: (4899 R + 9617 G + 1868 B + 2^13) >> 14
Gray(p) == (4899 * p[1] + 9617 * p[2] + 1868 * p[3] + 8192) \div 16384

\* what encode_ai hands to sobel: the grayscale of the file as it is
EncEdgeInput(img) == [i \in DOMAIN img |-> Gray(img[i])]

\* what decode_ai hands to sobel: red & 0xFE, then the grayscale
DecEdgeInput(img) ==
    [i \in DOMAIN img |-> Gray(<<img[i][1] - (img[i][1] % 2), img[i][2], img[i][3]>>)]

\* the pixels that pass "importance_map[y, x] >= threshold", in scan order
Qualifying(imp, t, w, h) ==
    LET Passes(i) == imp[i] >= t
    IN  SelectSeq(ScanOrder(w, h), Passes)

\* encode_ai: sort(key = importance, reverse = True).  The sort is stable and
\* keeps equal keys in their scan order, so i precedes j exactly when
EncBefore(imp, i, j) == imp[i] > imp[j] \/ (imp[i] = imp[j] /\ i < j)

\* pixel_importance of encode_ai, as raster indices
EncCandidates(imp, t, w, h) ==
    LET Before(i, j) == EncBefore(imp, i, j)
    IN  SortSeq(Qualifying(imp, t, w, h), Before)

\* -p[2] of a numpy uint8 score: the negation wraps modulo 2^8
NegU8(v) == (256 - v) % 256

\* decode_ai: sort(key = (-importance, x, y))
DecBefore(imp, w, i, j) ==
    \/ NegU8(imp[i]) < NegU8(imp[j])
    \/ /\ NegU8(imp[i]) = NegU8(imp[j])
       /\ \/ XOf(i, w) < XOf(j, w)
          \/ (XOf(i, w) = XOf(j, w) /\ YOf(i, w) < YOf(j, w))

\* pixel_importance of decode_ai, as raster indices
DecCandidates(imp, t, w, h) ==
    LET Before(i, j) == DecBefore(imp, w, i, j)
    IN  SortSeq(Qualifying(imp, t, w, h), Before)

\* calculate_max_message_size
MaxChars(w, h) == (w * h - 8) \div 8

\* a check that rejects a bitstream that fills the candidates exactly
NotEnoughPixelsOffByOne(bits, cands) == Len(bits) >= Len(cands)

\* encode_ai's "Check if we have enough pixels"
NotEnoughPixels(bits, cands) == Len(bits) > Len(cands)

\* encode_ai's write loop: for idx < len(pixel_importance), bit idx goes to the
\* red LSB of candidate idx, green and blue are written back as read.  The
\* candidates are pairwise different pixels, so the loop's result is, per pixel:
WriteRed(img, cands, bits) ==
    LET n == Min(Len(bits), Len(cands))
        written == {cands[k] : k \in 1..n}
        PosOf(i) == CHOOSE k \in 1..n : cands[k] = i
    IN  [i \in DOMAIN img |->
            IF i \in written
            THEN <<SetLSB(img[i][1], bits[PosOf(i)]), img[i][2], img[i][3]>>
            ELSE img[i]]

---------------------------------------------------------------------------
(* The inputs. *)

\* importance maps cv2.normalize(NORM_MINMAX) can return: all zero for a flat
\* image, otherwise with minimum 0 and maximum 255
MapFlat(w, h) == [i \in Indices(w, h) |-> 0]

\* three scores, each shared by pixels that differ in x and in y
MapTies(w, h) ==
    [i \in Indices(w, h) |->
        IF i < (7 * w * h) \div 25 THEN 0
        ELSE IF (XOf(i, w) + YOf(i, w)) % 2 = 0 THEN 255 ELSE 150]

\* pairwise different scores
MapDistinct(w, h) ==
    [i \in Indices(w, h) |-> IF i = w * h - 1 THEN 0 ELSE 255 - i]

\* pixel contents: mixed parities; even red everywhere; white with the red
\* LSBs of the first eight pixels spelling 11111110
PixelsMixed(w, h) ==
    [i \in Indices(w, h) |-> <<(3 * i + 1) % 256, (5 * i) % 256, (7 * i + 2) % 256>>]

PixelsEvenRed(w, h) ==
    [i \in Indices(w, h) |-> <<2 * ((7 * i) % 128), (11 * i + 1) % 256, (13 * i) % 256>>]

PixelsWhite(w, h) ==
    [i \in Indices(w, h) |-> IF i = 7 THEN <<254, 255, 255>> ELSE <<255, 255, 255>>]

Images(w, h) == {PixelsMixed(w, h), PixelsEvenRed(w, h), PixelsWhite(w, h)}

IsFlat(gray) == \A i \in DOMAIN gray : gray[i] = gray[0]

\* sobel + cv2.normalize as an oracle: a flat grayscale image has no edges and
\* normalizes to zero everywhere; any other image to some map with ties or without
SobelOracle(gray, w, h) ==
    IF IsFlat(gray) THEN {MapFlat(w, h)} ELSE {MapTies(w, h), MapDistinct(w, h)}

Sizes == {<<SmallSide, SmallSide>>, <<Width, Height>>}

Messages == UNION {[1..n -> Alphabet] : n \in 0..MaxMsgLen}

\* files that open: RGB; RGBA; RGB that PIL opens and cv2.imread does not
Readable == {"ok", "rgba", "cv2_unreadable"}
Unreadable == {"missing", "unsupported", "undecodable"}

NoImage == <<>>

Init ==
    /\ path_status \in Readable \cup Unreadable
    /\ \E sz \in Sizes :
          /\ width = sz[1]
          /\ height = sz[2]
          /\ pixels \in Images(sz[1], sz[2])
          /\ importance_map \in SobelOracle(EncEdgeInput(pixels), sz[1], sz[2])
    /\ message \in Messages
    /\ threshold \in Thresholds
    /\ pc = "start"
    /\ enc_kind = "none"
    /\ enc_channels = {}
    /\ enc_result = "none"
    /\ enc_candidates = <<>>
    /\ events = <<>>
    /\ out_exists = FALSE
    /\ out_pixels = NoImage
    /\ dec_entry = "none"
    /\ dec_target = "none"
    /\ dec_threshold = 0
    /\ dec_map = NoImage
    /\ dec_candidates = <<>>
    /\ dec_term_found = FALSE
    /\ dec_tried = <<>>
    /\ dec_kind = "none"
    /\ dec_text = <<>>
    /\ dec_error = "none"

---------------------------------------------------------------------------
(* The encoders. *)

\* validate_image_path: the error it raises, "none" when it returns True
ValidateError(status) ==
    IF status = "missing" THEN "FileNotFoundError"
    ELSE IF status = "unsupported" THEN "ValueError: unsupported format"
    ELSE "none"

\* Image.open on a file that is no image
OpenError(status) ==
    IF status = "undecodable" THEN "UnidentifiedImageError" ELSE "none"

\* an encoder that raises: nothing is saved
EncFails(kind, err, evs) ==
    /\ pc' = "failed"
    /\ enc_kind' = kind
    /\ enc_result' = err
    /\ events' = evs
    /\ out_exists' = FALSE
    /\ out_pixels' = NoImage

\* an encoder that saves img and returns True
EncSaves(kind, img, evs) ==
    /\ pc' = "encoded"
    /\ enc_kind' = kind
    /\ enc_result' = "ok"
    /\ events' = evs \o <<"save">>
    /\ out_exists' = TRUE
    /\ out_pixels' = img

\* create_backup of ai_encoder.py: a failure is logged as a warning and swallowed
AIBackupEvent(ok) == IF ok THEN "backup created" ELSE "backup failed, logged"

\* encode_ai(image_path, message, output_path, threshold)
EncodeAI ==
    /\ pc = "start"
    /\ enc_channels' = {"r"}
    /\ UNCHANGED <<inputVars, decVars>>
    /\ IF ValidateError(path_status) # "none"
       THEN EncFails("ai", ValidateError(path_status), <<>>) /\ enc_candidates' = <<>>
       ELSE IF OpenError(path_status) # "none"
       THEN EncFails("ai", OpenError(path_status), <<>>) /\ enc_candidates' = <<>>
       ELSE IF Len(message) > MaxChars(width, height)
       THEN EncFails("ai", "ValueError: message too large", <<>>) /\ enc_candidates' = <<>>
       ELSE \E backup_ok \in BOOLEAN :
              LET evs   == <<AIBackupEvent(backup_ok)>>
                  cands == EncCandidates(importance_map, threshold, width, height)
                  bits  == AIFrame(message)
              IN  IF path_status = "cv2_unreadable"
                  THEN EncFails("ai", "IOError: failed to load image", evs)
                       /\ enc_candidates' = <<>>
                  ELSE IF NotEnoughPixels(bits, cands)
                  THEN EncFails("ai", "ValueError: not enough suitable pixels", evs)
                       /\ enc_candidates' = cands
                  ELSE EncSaves("ai", WriteRed(pixels, cands, bits), evs \o <<"write">>)
                       /\ enc_candidates' = cands

\* create_backup of utils.py: a failure is logged and raised again
UtilsBackupError(ok) == IF ok THEN "none" ELSE "OSError: backup not written"

\* "r, g, b = pixels[x, y]" on an image Image.open did not convert to RGB
UnpackError(status) ==
    IF status = "rgba" THEN "ValueError: too many values to unpack" ELSE "none"

\* encode_lsb's write loop: bit idx goes to the red LSB of the idx-th pixel of the
\* raster scan, while idx < len(binary_message)
WriteRaster(img, bits) ==
    [i \in DOMAIN img |->
        IF i + 1 <= Len(bits)
        THEN <<SetLSB(img[i][1], bits[i + 1]), img[i][2], img[i][3]>>
        ELSE img[i]]

\* encode_lsb(image_path, message, output_path)
EncodeLSB ==
    /\ pc = "start"
    /\ enc_channels' = {"r"}
    /\ enc_candidates' = <<>>
    /\ UNCHANGED <<inputVars, decVars>>
    /\ IF ValidateError(path_status) # "none"
       THEN EncFails("lsb", ValidateError(path_status), <<>>)
       ELSE IF OpenError(path_status) # "none"
       THEN EncFails("lsb", OpenError(path_status), <<>>)
       ELSE IF Len(message) > MaxChars(width, height)
       THEN EncFails("lsb", "ValueError: message too large", <<>>)
       ELSE \E backup_ok \in BOOLEAN :
              IF UtilsBackupError(backup_ok) # "none"
              THEN EncFails("lsb", UtilsBackupError(backup_ok), <<"backup failed, raised">>)
              ELSE IF UnpackError(path_status) # "none"
              THEN EncFails("lsb", UnpackError(path_status), <<"backup created">>)
              ELSE EncSaves("lsb", WriteRaster(pixels, LsbFrame(message)),
                            <<"backup created", "write">>)

ChannelOrder == <<"r", "g", "b">>

\* how many of the channels tested before channel number c are selected
ChannelRank(channels, c) == Cardinality({d \in 1..(c - 1) : ChannelOrder[d] \in channels})

\* encode_lsb_multi_channel's write loop: per pixel of the raster scan, the selected
\* channels take the next bits in the order r, g, b while idx < len(binary_message)
WriteChannels(img, bits, channels) ==
    LET n == Cardinality(channels)
        Put(i, c) ==
            LET idx == i * n + ChannelRank(channels, c) + 1
            IN  IF ChannelOrder[c] \in channels /\ idx <= Len(bits)
                THEN SetLSB(img[i][c], bits[idx])
                ELSE img[i][c]
    IN  [i \in DOMAIN img |-> <<Put(i, 1), Put(i, 2), Put(i, 3)>>]

ChannelChoices == {{"r", "g", "b"}, {"b"}}

\* encode_lsb_multi_channel(image_path, message, output_path, channels)
EncodeLSBMultiChannel ==
    /\ pc = "start"
    /\ enc_candidates' = <<>>
    /\ UNCHANGED <<inputVars, decVars>>
    /\ \E channels \in ChannelChoices :
        /\ enc_channels' = channels
        /\ IF ValidateError(path_status) # "none"
           THEN EncFails("multi", ValidateError(path_status), <<>>)
           ELSE IF OpenError(path_status) # "none"
           THEN EncFails("multi", OpenError(path_status), <<>>)
           ELSE IF Len(message) > MaxChars(width, height) * Cardinality(channels)
           THEN EncFails("multi", "ValueError: message too large", <<>>)
           ELSE \E backup_ok \in BOOLEAN :
                  IF UtilsBackupError(backup_ok) # "none"
                  THEN EncFails("multi", UtilsBackupError(backup_ok),
                                <<"backup failed, raised">>)
                  ELSE IF UnpackError(path_status) # "none"
                  THEN EncFails("multi", UnpackError(path_status), <<"backup created">>)
                  ELSE EncSaves("multi", WriteChannels(pixels, LsbFrame(message), channels),
                                <<"backup created", "write">>)

---------------------------------------------------------------------------
(* The decoders. *)

Returned(text) == [kind |-> "return", text |-> text, error |-> "none"]
Raised(err) == [kind |-> "raise", text |-> <<>>, error |-> err]

\* the smallest element of a nonempty set of numbers
Least(S) == CHOOSE m \in S : \A k \in S : m <= k

\* the red LSBs of the raster scan
RedBits(img, w, h) == [k \in 1..(w * h) |-> LSB(img[k - 1][1])]

\* the red, green and blue LSBs of the raster scan, pixel by pixel
RgbBits(img, w, h) == [k \in 1..(3 * w * h) |-> LSB(img[(k - 1) \div 3][((k - 1) % 3) + 1])]

\* decode_lsb's extraction: after each pixel, when the length is a multiple of 8 and
\* the last 8 bits are the terminator, drop them and stop
LsbExtract(bits) ==
    LET stops == {m \in 1..Len(bits) :
                     m % 8 = 0 /\ m >= 8 /\ SubSeq(bits, m - 7, m) = LsbTerminator}
    IN  IF stops = {} THEN bits ELSE SubSeq(bits, 1, Least(stops) - 8)

\* decode_standard_lsb's extraction: three bits per pixel, the terminator is tested
\* after each pixel when the length is a multiple of 8
StandardExtract(bits) ==
    LET stops == {m \in 1..Len(bits) :
                     /\ m % 3 = 0
                     /\ m % 8 = 0
                     /\ m >= 8
                     /\ SubSeq(bits, m - 7, m) = StandardTerminator}
    IN  IF stops = {} THEN bits ELSE SubSeq(bits, 1, Least(stops) - 8)

\* decode_lsb(image_path) on a file of the given status and content
DecodeLsbResult(status, img, w, h) ==
    IF ValidateError(status) # "none" THEN Raised(ValidateError(status))
    ELSE IF OpenError(status) # "none" THEN Raised(OpenError(status))
    ELSE IF UnpackError(status) # "none" THEN Raised(UnpackError(status))
    ELSE Returned(BitsToChars(LsbExtract(RedBits(img, w, h))))

\* decode_standard_lsb(image_path) on a file of the given status and content
DecodeStandardResult(status, img, w, h) ==
    IF ValidateError(status) # "none" THEN Raised(ValidateError(status))
    ELSE IF OpenError(status) # "none" THEN Raised(OpenError(status))
    ELSE IF UnpackError(status) # "none" THEN Raised(UnpackError(status))
    ELSE Returned(BitsToChars(StandardExtract(RgbBits(img, w, h))))

\* decode_ai's "Extract bits": the red LSBs of the candidates in order
CandidateBits(img, cands) == [k \in 1..Len(cands) |-> LSB(img[cands[k]][1])]

\* the lengths at which decode_ai's loop sees its terminator in the last 64 bits
TerminatorStops(bits) ==
    {m \in AITerminatorLen..Len(bits) :
        SubSeq(bits, m - AITerminatorLen + 1, m) = AIDecTerminator}

\* binary when decode_ai's loop ends: cut before the first terminator, or everything
AIExtract(bits) ==
    IF TerminatorStops(bits) = {} THEN bits
    ELSE SubSeq(bits, 1, Least(TerminatorStops(bits)) - AITerminatorLen)

\* what decode_ai does when its loop ends without a terminator: the code goes on to
\* "Convert to bytes" with all the bits read
AIUnframed(bits) == Returned(DecodeBytes(BitsToBytes(AIExtract(bits))))

\* the file a decoder is given: the source file or the encoder's output
TargetStatus(target) == IF target = "source" THEN path_status ELSE "ok"
TargetPixels(target) == IF target = "source" THEN pixels ELSE out_pixels
TargetAvailable(target) ==
    \/ target = "source" /\ pc = "start"
    \/ target = "output" /\ pc = "encoded"

\* the map sobel + normalize returns inside decode_ai: the encoder's map when it is
\* given the same grayscale image as the encoder was, a map of the oracle otherwise
DecoderMaps(img) ==
    IF DecEdgeInput(img) = EncEdgeInput(pixels) THEN {importance_map}
    ELSE SobelOracle(DecEdgeInput(img), width, height)

DecodeDone(entry, target, t, res) ==
    /\ pc' = "decoded"
    /\ dec_entry' = entry
    /\ dec_target' = target
    /\ dec_threshold' = t
    /\ dec_kind' = res.kind
    /\ dec_text' = res.text
    /\ dec_error' = res.error

\* decode_ai(image_path, threshold).  ai_decoder.py imports nothing at module level:
\* the name validate_image_path resolves only when the importing program has bound
\* it in the module (name_bound).  The handler's "logger" is a local of decode_ai,
\* assigned after the validate_image_path call.
DecodeAI ==
    /\ \E target \in {"source", "output"}, t \in Thresholds, name_bound \in BOOLEAN :
        /\ TargetAvailable(target)
        /\ LET status == TargetStatus(target)
               img    == TargetPixels(target)
           IN  IF ~name_bound \/ ValidateError(status) # "none"
               THEN \* the call raises before logger is assigned; the handler's
                    \* logger.error raises UnboundLocalError out of decode_ai
                    /\ DecodeDone("decode_ai", target, t, Raised("UnboundLocalError"))
                    /\ dec_tried' = <<"importance_guided">>
                    /\ dec_map' = NoImage
                    /\ dec_candidates' = <<>>
                    /\ dec_term_found' = FALSE
               ELSE IF status \in {"undecodable", "cv2_unreadable"}
               THEN \* cv2.imread returns None: IOError, logged, then decode_lsb
                    /\ DecodeDone("decode_ai", target, t,
                                  DecodeLsbResult(status, img, width, height))
                    /\ dec_tried' = <<"importance_guided", "uniform_single">>
                    /\ dec_map' = NoImage
                    /\ dec_candidates' = <<>>
                    /\ dec_term_found' = FALSE
               ELSE \E map \in DecoderMaps(img) :
                        LET cands == DecCandidates(map, t, width, height)
                            bits  == CandidateBits(img, cands)
                        IN  /\ DecodeDone("decode_ai", target, t, AIUnframed(bits))
                            /\ dec_tried' = <<"importance_guided">>
                            /\ dec_map' = map
                            /\ dec_candidates' = cands
                            /\ dec_term_found' = (TerminatorStops(bits) # {})
    /\ UNCHANGED <<inputVars, encVars>>

\* decode_lsb(image_path), called directly
DecodeLSB ==
    /\ \E target \in {"source", "output"} :
        /\ TargetAvailable(target)
        /\ DecodeDone("decode_lsb", target, 0,
                      DecodeLsbResult(TargetStatus(target), TargetPixels(target),
                                      width, height))
    /\ UNCHANGED <<inputVars, encVars, dec_map, dec_candidates, dec_term_found, dec_tried>>

\* decode_standard_lsb(image_path), called directly
DecodeStandardLSB ==
    /\ \E target \in {"source", "output"} :
        /\ TargetAvailable(target)
        /\ DecodeDone("decode_standard_lsb", target, 0,
                      DecodeStandardResult(TargetStatus(target), TargetPixels(target),
                                           width, height))
    /\ UNCHANGED <<inputVars, encVars, dec_map, dec_candidates, dec_term_found, dec_tried>>

Next ==
    \/ EncodeAI
    \/ EncodeLSB
    \/ EncodeLSBMultiChannel
    \/ DecodeAI
    \/ DecodeLSB
    \/ DecodeStandardLSB

Spec == Init /\ [][Next]_vars

---------------------------------------------------------------------------
(* Properties. *)

AfterDecodeAI == pc = "decoded" /\ dec_entry = "decode_ai"

\* decode_ai got as far as building its candidate sequence
DecoderBodyRan == AfterDecodeAI /\ dec_map # NoImage

AIEncoded == enc_kind = "ai" /\ enc_result = "ok"

\* C1: importance-guided round trip: decode_ai, run with the encoder's threshold
\* on the image encode_ai saved, with the encoder's importance map and the
\* encoder's candidate order, returns the message that was encoded.
C1_RoundTrip ==
    (/\ DecoderBodyRan
     /\ dec_target = "output"
     /\ AIEncoded
     /\ dec_threshold = threshold
     /\ dec_map = importance_map
     /\ dec_candidates = enc_candidates)
    => (dec_kind = "return" /\ dec_text = message)

\* C2: decode_ai never raises: it ends by returning a string.
C2_DecodeNeverRaises == AfterDecodeAI => dec_kind = "return"

Strategies == <<"importance_guided", "uniform_single", "uniform_multi">>

\* C3: the fallback chain runs its strategies in the order importance-guided,
\* uniform single-channel, uniform multi-channel; a strategy that fails (raises,
\* or yields no message) is followed by the next one, so a failure reaches the
\* caller only as the empty string after all three have run.
C3_FallbackChain ==
    AfterDecodeAI =>
        /\ Len(dec_tried) \in 1..3
        /\ dec_tried = SubSeq(Strategies, 1, Len(dec_tried))
        /\ (dec_kind = "raise" \/ (Len(dec_tried) >= 2 /\ dec_text = <<>>))
               => (dec_tried = Strategies /\ dec_kind = "return" /\ dec_text = <<>>)

\* C4: decode_ai on an image written by encode_lsb_multi_channel with channels
\* r, g, b returns the message that was encoded.
C4_MultiChannelFallback ==
    (/\ DecoderBodyRan
     /\ dec_target = "output"
     /\ enc_kind = "multi"
     /\ enc_channels = {"r", "g", "b"}
     /\ enc_result = "ok")
    => (dec_kind = "return" /\ dec_text = message)

\* C5: given the same importance map and threshold, decode_ai's candidate
\* sequence equals encode_ai's, element for element.
C5_SameCandidateOrder ==
    (/\ DecoderBodyRan
     /\ dec_target = "output"
     /\ AIEncoded
     /\ dec_threshold = threshold
     /\ dec_map = importance_map)
    => dec_candidates = enc_candidates

\* encode_ai got past path validation and image loading
AIRanOnReadable == enc_kind = "ai" /\ path_status \in {"ok", "rgba"}

CandidateCount == Len(EncCandidates(importance_map, threshold, width, height))

\* every bit of the framed bitstream is in the red LSB of its candidate
FullyWritten ==
    LET bits == AIFrame(message)
    IN  /\ out_exists
        /\ Len(bits) <= Len(enc_candidates)
        /\ \A k \in 1..Len(bits) : LSB(out_pixels[enc_candidates[k]][1]) = bits[k]

RejectedUnmutated(err) ==
    /\ enc_result = err
    /\ ~out_exists
    /\ \A k \in 1..Len(events) : events[k] # "write"

\* C6 as claimed: with maxChars = floor((candidateCount - 64) / 8), a message of
\* maxChars characters is accepted and fully written and a message of
\* maxChars + 1 characters is rejected with the too-large error before any pixel
\* is mutated, whatever the UTF-8 width of its characters.
C6_CharBoundary ==
    AIRanOnReadable =>
        LET maxChars == (CandidateCount - AITerminatorLen) \div 8
        IN  /\ Len(message) = maxChars => (enc_result = "ok" /\ FullyWritten)
            /\ Len(message) = maxChars + 1
                  => RejectedUnmutated("ValueError: message too large")

\* C6 amended: with maxBytes = floor((candidateCount - 64) / 8), a message whose
\* UTF-8 encoding has at most maxBytes bytes is accepted and fully written, and a
\* message whose UTF-8 encoding has more bytes is rejected before any pixel is
\* mutated: with the too-large error when it has more characters than
\* floor((width*height - 8) / 8), with the not-enough-pixels error otherwise.
C6_ByteBoundary ==
    AIRanOnReadable =>
        LET maxBytes == (CandidateCount - AITerminatorLen) \div 8
            nbytes   == Len(Utf8Encode(message))
        IN  /\ nbytes <= maxBytes => (enc_result = "ok" /\ FullyWritten)
            /\ nbytes > maxBytes
                  => RejectedUnmutated(IF Len(message) > MaxChars(width, height)
                                       THEN "ValueError: message too large"
                                       ELSE "ValueError: not enough suitable pixels")

\* a message of exactly maxBytes one-byte characters was accepted: the bitstream
\* fills the candidates to the last one
C6_WitnessAccepted ==
    /\ AIRanOnReadable
    /\ enc_result = "ok"
    /\ message # <<>>
    /\ Len(AIFrame(message)) = CandidateCount
    /\ CandidateCount < width * height

\* a message one byte over maxBytes was rejected although it has no more than
\* maxChars characters
C6_WitnessRejected ==
    /\ AIRanOnReadable
    /\ enc_result = "ValueError: not enough suitable pixels"
    /\ Len(Utf8Encode(message)) = ((CandidateCount - AITerminatorLen) \div 8) + 1
    /\ Len(message) <= (CandidateCount - AITerminatorLen) \div 8

\* C7: when decode_ai has read every candidate without seeing its terminator,
\* the importance-guided strategy fails and the next strategy runs.
C7_NoTerminatorFails ==
    (DecoderBodyRan /\ ~dec_term_found) => Len(dec_tried) >= 2

AllBits(bits, from, n, v) ==
    /\ Len(bits) >= from + n - 1
    /\ \A k \in from..(from + n - 1) : bits[k] = v

\* C8: the terminators as written and as searched: after encode_ai the 64
\* candidates that follow the payload carry ones and decode_ai searches for 64
\* ones; after encode_lsb and encode_lsb_multi_channel the 8 bits that follow the
\* payload are zeros and decode_lsb and decode_standard_lsb stop at 8 zeros.
C8_TerminatorPatterns ==
    /\ AIEncoded =>
          AllBits(CandidateBits(out_pixels, enc_candidates),
                  Len(AIPayloadBits(message)) + 1, 64, 1)
    /\ DecoderBodyRan => AIDecTerminator = Repeat(1, 64)
    /\ (enc_kind = "lsb" /\ enc_result = "ok" /\ Len(LsbFrame(message)) <= width * height) =>
          AllBits(RedBits(out_pixels, width, height),
                  Len(LsbPayloadBits(message)) + 1, 8, 0)
    /\ (enc_kind = "multi" /\ enc_result = "ok" /\ enc_channels = {"r", "g", "b"}
        /\ Len(LsbFrame(message)) <= 3 * width * height) =>
          AllBits(RgbBits(out_pixels, width, height),
                  Len(LsbPayloadBits(message)) + 1, 8, 0)
    /\ (pc = "decoded" /\ dec_entry = "decode_lsb" /\ dec_kind = "return") =>
          LsbTerminator = Repeat(0, 8)
    /\ (pc = "decoded" /\ dec_entry = "decode_standard_lsb" /\ dec_kind = "return") =>
          StandardTerminator = Repeat(0, 8)

\* C9: after encode_ai succeeds, the k-th of the first len(bitstream) candidates
\* has bit k in its red LSB and its upper seven red bits, its green and its blue
\* as in the source; every other pixel is as in the source.
C9_WriteFrame ==
    AIEncoded =>
        LET bits    == AIFrame(message)
            written == {enc_candidates[k] : k \in 1..Len(bits)}
        IN  /\ Len(bits) <= Len(enc_candidates)
            /\ DOMAIN out_pixels = DOMAIN pixels
            /\ \A k \in 1..Len(bits) :
                  LET old == pixels[enc_candidates[k]]
                      new == out_pixels[enc_candidates[k]]
                  IN  /\ new[1] % 2 = bits[k]
                      /\ new[1] \div 2 = old[1] \div 2
                      /\ new[2] = old[2]
                      /\ new[3] = old[3]
            /\ \A i \in DOMAIN pixels : i \notin written => out_pixels[i] = pixels[i]

\* encode_ai succeeded with a payload, changed some red LSB, left candidates
\* beyond the bitstream and pixels below the threshold
C9_Witness ==
    /\ AIEncoded
    /\ message # <<>>
    /\ out_pixels # pixels
    /\ Len(AIFrame(message)) < Len(enc_candidates)
    /\ Len(enc_candidates) < width * height

BackupFailed ==
    \E k \in 1..Len(events) :
        events[k] \in {"backup failed, logged", "backup failed, raised"}

\* C10: on every encode path the backup comes before any pixel is written, and
\* a backup that fails does not abort the encode: the output is still saved.
C10_BackupBestEffort ==
    /\ \A k \in 1..Len(events) :
          events[k] = "write"
              => \E j \in 1..(k - 1) :
                    events[j] \in {"backup created", "backup failed, logged",
                                   "backup failed, raised"}
    /\ (BackupFailed /\ path_status = "ok")
          => enc_result \in {"ok", "ValueError: not enough suitable pixels"}

SetOf(seq) == {seq[k] : k \in 1..Len(seq)}

\* C11: importance-map agreement: the image decode_ai hands to edge detection
\* (the image encode_ai saved, each red LSB cleared) equals the image encode_ai
\* handed to edge detection (the source as it was), so that with the encoder's
\* threshold both sides select the same set of pixels.
C11_SameEdgeInput ==
    (/\ DecoderBodyRan
     /\ dec_target = "output"
     /\ AIEncoded)
    => /\ DecEdgeInput(out_pixels) = EncEdgeInput(pixels)
       /\ dec_threshold = threshold => SetOf(dec_candidates) = SetOf(enc_candidates)

\* C12: at every threshold, threshold 0 included, decode_ai's candidate sequence
\* is non-increasing in importance.
C12_DescendingOrder ==
    DecoderBodyRan =>
        \A k \in 1..(Len(dec_candidates) - 1) :
            dec_map[dec_candidates[k]] >= dec_map[dec_candidates[k + 1]]

\* the LSBs of the selected channels in the order the multi-channel write loop
\* visits them
ChannelBits(img, w, h, channels) ==
    LET n == Cardinality(channels)
        Sel(r) == CHOOSE c \in 1..3 :
                      ChannelOrder[c] \in channels /\ ChannelRank(channels, c) = r
    IN  [k \in 1..(n * w * h) |-> LSB(img[(k - 1) \div n][Sel((k - 1) % n)])]

StartsWith(bits, frame) ==
    /\ Len(frame) <= Len(bits)
    /\ \A k \in 1..Len(frame) : bits[k] = frame[k]

\* C13: no silent truncation: when encode_lsb, encode_lsb_multi_channel or
\* encode_ai returns success, every bit of the framed bitstream, the payload and
\* the whole terminator, is in the image, whatever the code points of the message.
C13_NoSilentTruncation ==
    /\ (enc_kind = "lsb" /\ enc_result = "ok")
          => StartsWith(RedBits(out_pixels, width, height), LsbFrame(message))
    /\ (enc_kind = "multi" /\ enc_result = "ok")
          => StartsWith(ChannelBits(out_pixels, width, height, enc_channels),
                        LsbFrame(message))
    /\ AIEncoded
          => StartsWith(CandidateBits(out_pixels, enc_candidates), AIFrame(message))

\* C14: uniform single-channel round trip: decode_lsb on the image encode_lsb saved
\* returns the message that was encoded, also when a character of the message
\* has the terminator byte as its 8-bit code.
C14_LsbRoundTrip ==
    (/\ pc = "decoded"
     /\ dec_entry = "decode_lsb"
     /\ dec_target = "output"
     /\ enc_kind = "lsb"
     /\ enc_result = "ok"
     /\ \A k \in 1..Len(message) : message[k] < 256)
    => (dec_kind = "return" /\ dec_text = message)

===========================================================================
